---- MODULE Spec2Model ----
(***************************************************************************)
(* Missing_Values_Imputation.ipynb as a state machine.                     *)
(*                                                                         *)
(* The state is the Jupyter kernel's namespace (dataset, num_missing,      *)
(* values, X, y, transformed_values, imputer, result), the input file the  *)
(* cells read, and what the last cell printed.  Each code cell is one      *)
(* action, and a cell that raises ends alone: the next cell can still be   *)
(* run.  Spec runs the cells one at a time from the top of the notebook,   *)
(* SpecLoad runs the two loading cells on files that need not be           *)
(* rectangular, and SpecAnyOrder runs the cells in any order.              *)
(* The last four cells (import sklearn, print(sum), ...) touch no data and *)
(* are left out.                                                           *)
(*                                                                         *)
(* Numbers are exact rationals <<num, den>> (den > 0, lowest terms); the   *)
(* float nan is <<0, 0>>.  float64 rounding is not modelled.               *)
(***************************************************************************)
EXTENDS Integers, Sequences, FiniteSets, TLC

VARIABLES file, dataset, num_missing, values, X, y, transformed_values,
          imputer, result, cvtrace, filterwarnings, out, pc

vars == <<file, dataset, num_missing, values, X, y, transformed_values,
          imputer, result, cvtrace, filterwarnings, out, pc>>

(***************************************************************************)
(* Bounds of the input files.                                              *)
(***************************************************************************)
MaxRows == 3

\* how many cells are run when the cells are run in any order
MaxSteps == 4

(***************************************************************************)
(* Program constants.                                                      *)
(***************************************************************************)
TargetCol == 8
HeadRows == 20
NSplits == 3

\* mutant: the column labels taken one too low
NullableCols_ZeroBased == <<0, 1, 2, 3, 4>>

\* dataset[[1,2,3,4,5]]: the columns in which 0 stands for a missing value
NullableCols == <<1, 2, 3, 4, 5>>

(***************************************************************************)
(* Numbers.                                                                *)
(***************************************************************************)
nan == <<0, 0>>

Num(n) == <<n, 1>>

isnan(c) == c[2] = 0

RECURSIVE Gcd(_, _)
Gcd(a, b) == IF b = 0 THEN a ELSE Gcd(b, a % b)

Abs(n) == IF n < 0 THEN -n ELSE n

\* n/d with d > 0 in lowest terms; 0/0 is nan as in IEEE arithmetic
Div(n, d) ==
    IF d = 0 THEN nan
    ELSE LET g == Gcd(Abs(n), d) IN <<n \div g, d \div g>>

Add(a, b) == Div(a[1] * b[2] + b[1] * a[2], a[2] * b[2])

\* a < b on numbers (never called on nan)
Less(a, b) == a[1] * b[2] < b[1] * a[2]

\* Python's ==: nan equals nothing, itself included
PyEq(a, b) == ~isnan(a) /\ ~isnan(b) /\ a = b

None == <<>>
Some(v) == <<v>>
Range(s) == {s[i] : i \in DOMAIN s}

(***************************************************************************)
(* The input file: lines of fields, a field a number or empty.             *)
(***************************************************************************)
Field(n) == [kind |-> "num", val |-> n]
Empty == [kind |-> "empty", val |-> 0]

Line(s) == [c \in 1..Len(s) |-> IF s[c] < 0 THEN Empty ELSE Field(s[c])]

\* -1 writes an empty field.  Zeros in nullable columns (3, 4; 1, 4, 5), zeros
\* in columns 0, 6, 7 and in the target, empty fields in a plain column and
\* in the target, and one line with nothing missing.
Lines ==
    { Line(<<1, 2, 3, 0, 0, 2, 1, 2, 1>>),
      Line(<<0, 1, 2, 1, 0, 3, 0, 1, 0>>),
      Line(<<3, 0, 2, 1, 0, 0, 1, 0, 0>>),
      Line(<<1, 2, 2, 3, 1, 2, -1, 1, -1>>),
      Line(<<2, 3, 1, 1, 3, 1, 2, 2, 1>>) }

RECURSIVE SeqsUpTo(_, _)
SeqsUpTo(S, n) ==
    IF n = 0 THEN {<<>>}
    ELSE LET shorter == SeqsUpTo(S, n - 1)
         IN shorter \cup {Append(s, e) : s \in {t \in shorter : Len(t) = n - 1}, e \in S}

Files == SeqsUpTo(Lines, MaxRows)

\* the lines of the files that are not rectangular: a full line, a line
\* with an empty field, a line one field short and a line one field long
RaggedLines ==
    { Line(<<2, 3, 1, 1, 3, 1, 2, 2, 1>>),
      Line(<<1, 2, 2, 3, 1, 2, -1, 1, 0>>),
      Line(<<3, 0, 2, 1, 0, 0, 1, 0>>),
      Line(<<1, 2, 3, 0, 0, 2, 1, 2, 1, 4>>) }

RaggedFiles == SeqsUpTo(RaggedLines, MaxRows)

\* the files the cells are run in any order on: no line, fewer lines than
\* folds, three lines of which one is complete and one has empty fields,
\* three complete lines
OrderFiles ==
    { <<>>,
      <<Line(<<3, 0, 2, 1, 0, 0, 1, 0, 0>>)>>,
      <<Line(<<1, 2, 3, 0, 0, 2, 1, 2, 1>>),
        Line(<<1, 2, 2, 3, 1, 2, -1, 1, -1>>),
        Line(<<2, 3, 1, 1, 3, 1, 2, 2, 1>>)>>,
      <<Line(<<2, 3, 1, 1, 3, 1, 2, 2, 1>>),
        Line(<<2, 3, 1, 1, 3, 1, 2, 2, 1>>),
        Line(<<2, 3, 1, 1, 3, 1, 2, 2, 1>>)>> }

(***************************************************************************)
(* pandas.  A DataFrame is its row labels (index), its column labels and   *)
(* its rows, each row a function from column label to cell.                *)
(***************************************************************************)
ParseField(fld) == IF fld.kind = "num" THEN Num(fld.val) ELSE nan

\* the error read_csv raises: EmptyDataError on a file without lines,
\* ParserError ("Expected n fields in line i, saw m") on a line with more
\* fields than the first line; None when it raises nothing
read_csv_error(f) ==
    IF Len(f) = 0 THEN Some("EmptyDataError")
    ELSE IF \E i \in 1..Len(f) : Len(f[i]) > Len(f[1]) THEN Some("ParserError")
    ELSE None

read_csv_raises(f) == read_csv_error(f) # None

\* mutant: a line with fewer fields than the first is left out, as a
\* reader that skips bad lines would
read_csv_SkipShort(f) ==
    LET ncols == Len(f[1])
        kept  == SelectSeq(f, LAMBDA l : Len(l) = ncols)
    IN [index   |-> [i \in 1..Len(kept) |-> i - 1],
        columns |-> [c \in 1..ncols |-> c - 1],
        data    |-> [i \in 1..Len(kept) |->
                        [c \in 0..(ncols - 1) |-> ParseField(kept[i][c + 1])]]]

\* read_csv(f, header=None): as many columns as the first line has fields,
\* labelled 0..n-1, a RangeIndex; an empty field is nan and a line with
\* fewer fields is filled up with nan
read_csv(f) ==
    LET ncols == Len(f[1])
    IN [index   |-> [i \in 1..Len(f) |-> i - 1],
        columns |-> [c \in 1..ncols |-> c - 1],
        data    |-> [i \in 1..Len(f) |->
                        [c \in 0..(ncols - 1) |->
                            IF c + 1 <= Len(f[i]) THEN ParseField(f[i][c + 1]) ELSE nan]]]

shape(df) == <<Len(df.data), Len(df.columns)>>

\* df[cols]
getitem(df, cols) ==
    [df EXCEPT !.columns = cols,
               !.data = [i \in DOMAIN df.data |->
                            [c \in Range(cols) |-> df.data[i][c]]]]

\* df.replace(to_replace, value)
replace(df, to_replace, value) ==
    [df EXCEPT !.data = [i \in DOMAIN df.data |->
        [c \in Range(df.columns) |->
            IF PyEq(df.data[i][c], to_replace) THEN value ELSE df.data[i][c]]]]

\* df[cols] = sub, in place
setitem(df, cols, sub) ==
    [df EXCEPT !.data = [i \in DOMAIN df.data |->
        [c \in Range(df.columns) |->
            IF c \in Range(cols) THEN sub.data[i][c] ELSE df.data[i][c]]]]

\* mutant: the replacement applied to the whole frame
MarkMissing_AllColumns(df, cols, sentinel) == replace(df, sentinel, nan)

\* dataset[[1,2,3,4,5]] = dataset[[1,2,3,4,5]].replace(0, nan)
MarkMissing(df, cols, sentinel) ==
    setitem(df, cols, replace(getitem(df, cols), sentinel, nan))

\* df == v, a frame of booleans
eq(df, v) ==
    [df EXCEPT !.data = [i \in DOMAIN df.data |->
        [c \in Range(df.columns) |-> PyEq(df.data[i][c], v)]]]

\* df.isnull(), a frame of booleans
isnull(df) ==
    [df EXCEPT !.data = [i \in DOMAIN df.data |->
        [c \in Range(df.columns) |-> isnan(df.data[i][c])]]]

\* sum() of a frame of booleans: per column, the number of True
sum(bf) ==
    [c \in Range(bf.columns) |-> Cardinality({i \in DOMAIN bf.data : bf.data[i][c]})]

\* the positions of the rows without any nan, in order
CompleteRows(df) ==
    SelectSeq([i \in 1..Len(df.data) |-> i],
              LAMBDA i : \A c \in Range(df.columns) : ~isnan(df.data[i][c]))

\* mutant: only the columns 1..5 are looked at, as dropna(subset=[1,2,3,4,5])
dropna_Subset(df) ==
    LET keep == SelectSeq([i \in 1..Len(df.data) |-> i],
                          LAMBDA i : \A c \in Range(df.columns) \cap (1..5) :
                                        ~isnan(df.data[i][c]))
    IN [df EXCEPT !.index = [k \in 1..Len(keep) |-> df.index[keep[k]]],
                  !.data  = [k \in 1..Len(keep) |-> df.data[keep[k]]]]

\* mutant: the row is looked up at the position its label names
dropna_ByLabel(df) ==
    LET keep == SelectSeq([i \in 1..Len(df.data) |-> i],
                          LAMBDA i : /\ df.index[i] + 1 \in DOMAIN df.data
                                     /\ \A c \in Range(df.columns) :
                                           ~isnan(df.data[df.index[i] + 1][c]))
    IN [df EXCEPT !.index = [k \in 1..Len(keep) |-> df.index[keep[k]]],
                  !.data  = [k \in 1..Len(keep) |-> df.data[keep[k]]]]

\* df.dropna(inplace=True): axis=0, how='any'; the kept rows keep their labels
dropna(df) ==
    LET keep == CompleteRows(df)
    IN [df EXCEPT !.index = [k \in 1..Len(keep) |-> df.index[keep[k]]],
                  !.data  = [k \in 1..Len(keep) |-> df.data[keep[k]]]]

RECURSIVE SumSeq(_)
SumSeq(s) == IF s = <<>> THEN Num(0) ELSE Add(s[1], SumSeq(Tail(s)))

\* the cells of column c that are not nan, in row order
Observed(rows, c) ==
    LET col == [i \in 1..Len(rows) |-> rows[i][c]]
    IN SelectSeq(col, LAMBDA v : ~isnan(v))

\* mutant: the division truncates
Mean_Floor(s) ==
    LET t == SumSeq(s) IN IF Len(s) = 0 THEN nan ELSE Num((t[1] \div t[2]) \div Len(s))

\* the mean of the numbers of s; nan when there is none
Mean(s) ==
    LET t == SumSeq(s) IN Div(t[1], t[2] * Len(s))

\* df.mean(): skipna=True, per column; nan for a column without a number
mean(df) == [c \in Range(df.columns) |-> Mean(Observed(df.data, c))]

\* mutant: every cell of a column that holds a nan takes the column's mean
fillna_WholeColumn(df, ser) ==
    [df EXCEPT !.data = [i \in DOMAIN df.data |->
        [c \in Range(df.columns) |->
            IF (\E k \in DOMAIN df.data : isnan(df.data[k][c])) /\ ~isnan(ser[c])
                THEN ser[c] ELSE df.data[i][c]]]]

\* mutant: a column without a mean is filled with 0
fillna_Zero(df, ser) ==
    [df EXCEPT !.data = [i \in DOMAIN df.data |->
        [c \in Range(df.columns) |->
            IF isnan(df.data[i][c])
                THEN (IF isnan(ser[c]) THEN Num(0) ELSE ser[c])
                ELSE df.data[i][c]]]]

\* df.fillna(ser, inplace=True): per column; a nan in ser fills nothing
fillna(df, ser) ==
    [df EXCEPT !.data = [i \in DOMAIN df.data |->
        [c \in Range(df.columns) |->
            IF isnan(df.data[i][c]) /\ ~isnan(ser[c]) THEN ser[c]
            ELSE df.data[i][c]]]]

Min(a, b) == IF a < b THEN a ELSE b

\* df.head(n)
head(df, n) ==
    [df EXCEPT !.index = SubSeq(df.index, 1, Min(n, Len(df.index))),
               !.data  = SubSeq(df.data, 1, Min(n, Len(df.data)))]

(***************************************************************************)
(* numpy.  An array is its shape and its rows, columns by position.        *)
(***************************************************************************)
\* df.values: a new array
to_numpy(df) ==
    [shape |-> shape(df),
     a     |-> [i \in 1..Len(df.data) |->
                   [j \in 0..(Len(df.columns) - 1) |-> df.data[i][df.columns[j + 1]]]]]

\* arr[:, lo:hi]
ColSlice(arr, lo, hi) ==
    LET h == Min(hi, arr.shape[2])
    IN [shape |-> <<arr.shape[1], h - lo>>,
        a     |-> [i \in 1..Len(arr.a) |-> [j \in 0..(h - lo - 1) |-> arr.a[i][j + lo]]]]

\* arr[:, j], one-dimensional
Col(arr, j) == [i \in 1..Len(arr.a) |-> arr.a[i][j]]

\* isnan(arr).sum()
CountNan(arr) ==
    Cardinality({<<i, j>> \in (1..Len(arr.a)) \X (0..(arr.shape[2] - 1)) : isnan(arr.a[i][j])})

(***************************************************************************)
(* scikit-learn: SimpleImputer.                                            *)
(***************************************************************************)
RECURSIVE Insert(_, _)
Insert(v, s) ==
    IF s = <<>> THEN <<v>>
    ELSE IF Less(v, s[1]) THEN <<v>> \o s
    ELSE <<s[1]>> \o Insert(v, Tail(s))

RECURSIVE Sort(_)
Sort(s) == IF s = <<>> THEN <<>> ELSE Insert(s[1], Sort(Tail(s)))

\* the median of the numbers of s; nan when there is none
Median(s) ==
    LET t == Sort(s)
        n == Len(t)
    IN IF n = 0 THEN nan
       ELSE IF n % 2 = 1 THEN t[(n + 1) \div 2]
       ELSE LET m == Add(t[n \div 2], t[n \div 2 + 1]) IN Div(m[1], m[2] * 2)

Count(s, v) == Cardinality({i \in DOMAIN s : s[i] = v})

\* mutant: the largest of the most frequent values
MostFrequent_Largest(s) ==
    IF s = <<>> THEN nan
    ELSE LET most == {v \in Range(s) : \A w \in Range(s) : Count(s, w) <= Count(s, v)}
         IN CHOOSE v \in most : \A w \in most : ~Less(v, w)

\* _most_frequent(row, nan, 0): scipy's mode, the smallest of the most
\* frequent values; nan when there is no value
MostFrequent(s) ==
    IF s = <<>> THEN nan
    ELSE LET most == {v \in Range(s) : \A w \in Range(s) : Count(s, w) <= Count(s, v)}
         IN CHOOSE v \in most : \A w \in most : ~Less(w, v)

Statistic(strategy, s) ==
    CASE strategy = "mean" -> Mean(s)
      [] strategy = "median" -> Median(s)
      [] strategy = "most_frequent" -> MostFrequent(s)

\* SimpleImputer(missing_values=nan, strategy).fit(arr).statistics_
ImputerFit(strategy, arr) ==
    [j \in 0..(arr.shape[2] - 1) |-> Statistic(strategy, Observed(arr.a, j))]

\* the columns transform keeps: those whose statistic is not nan
ValidColumns(statistics) ==
    SelectSeq([k \in 1..Cardinality(DOMAIN statistics) |-> k - 1],
              LAMBDA j : ~isnan(statistics[j]))

\* mutant: the columns without a statistic are kept and filled with 0, as
\* with keep_empty_features=True
ImputerTransform_KeepEmpty(statistics, arr) ==
    [shape |-> arr.shape,
     a     |-> [i \in 1..Len(arr.a) |->
                   [j \in 0..(arr.shape[2] - 1) |->
                       IF ~isnan(arr.a[i][j]) THEN arr.a[i][j]
                       ELSE IF isnan(statistics[j]) THEN Num(0) ELSE statistics[j]]]]

\* SimpleImputer.transform(arr): the columns without a statistic are
\* discarded, and every nan left takes its column's statistic
ImputerTransform(statistics, arr) ==
    LET valid == ValidColumns(statistics)
    IN [shape |-> <<arr.shape[1], Len(valid)>>,
        a     |-> [i \in 1..Len(arr.a) |->
                      [k \in 0..(Len(valid) - 1) |->
                          LET j == valid[k + 1]
                          IN IF isnan(arr.a[i][j]) THEN statistics[j] ELSE arr.a[i][j]]]]

\* mutant: the imputation done in the array given, as with copy=False
ImputerInputAfter_InPlace(statistics, arr) ==
    [arr EXCEPT !.a = [i \in 1..Len(arr.a) |->
        [j \in 0..(arr.shape[2] - 1) |->
            IF isnan(arr.a[i][j]) THEN statistics[j] ELSE arr.a[i][j]]]]

\* what fit_transform leaves in the array it was given: copy=True
ImputerInputAfter(statistics, arr) == arr

(***************************************************************************)
(* scikit-learn: KFold, LinearDiscriminantAnalysis, cross_val_score.       *)
(***************************************************************************)
Shuffles(n) ==
    {p \in [1..n -> 1..n] : \A i, j \in 1..n : p[i] = p[j] => i = j}

FoldSize(n, k) == (n \div NSplits) + (IF k <= n % NSplits THEN 1 ELSE 0)

RECURSIVE FoldStart(_, _)
FoldStart(n, k) == IF k = 1 THEN 0 ELSE FoldStart(n, k - 1) + FoldSize(n, k - 1)

\* KFold(n_splits=3, shuffle=True).split: the k-th test set is the k-th
\* chunk of the shuffled positions
TestSet(perm, n, k) ==
    {perm[i] : i \in (FoldStart(n, k) + 1)..(FoldStart(n, k) + FoldSize(n, k))}

\* arr[positions], the rows in ascending order
Take(arr, positions) ==
    LET sel == SelectSeq([i \in 1..Len(arr.a) |-> i], LAMBDA i : i \in positions)
    IN [shape |-> <<Len(sel), arr.shape[2]>>,
        a     |-> [k \in 1..Len(sel) |-> arr.a[sel[k]]]]

TakeVec(vec, positions) ==
    LET sel == SelectSeq([i \in 1..Len(vec) |-> i], LAMBDA i : i \in positions)
    IN [k \in 1..Len(sel) |-> vec[sel[k]]]

HasNan(arr) == CountNan(arr) > 0

VecHasNan(vec) == \E i \in DOMAIN vec : isnan(vec[i])

\* mutant: a model that takes nan for a number
LdaFitRaises_AcceptsNan(Xa, ya) ==
    \/ Xa.shape[1] < 2
    \/ Xa.shape[2] = 0
    \/ Xa.shape[1] = Cardinality(Range(ya))

\* LinearDiscriminantAnalysis.fit raises on nan, on fewer than two samples,
\* on no feature, and when there are as many classes as samples
LdaFitRaises(Xa, ya) ==
    \/ HasNan(Xa)
    \/ VecHasNan(ya)
    \/ Xa.shape[1] < 2
    \/ Xa.shape[2] = 0
    \/ Xa.shape[1] = Cardinality(Range(ya))

\* one fit-and-score of cross_val_score; est is None for the bare model and
\* Some(strategy) for Pipeline([imputer, model]); error_score is nan
FitAndScore(est, Xa, ya, train, test) ==
    LET Xtr == Take(Xa, train)
        ytr == TakeVec(ya, train)
        Xte == Take(Xa, test)
        yte == TakeVec(ya, test)
        statistics == IF est = None THEN None ELSE Some(ImputerFit(est[1], Xtr))
        fitX == IF est = None THEN Xtr ELSE ImputerTransform(statistics[1], Xtr)
        fitted == ~LdaFitRaises(fitX, ytr)
        scoreX == IF est = None THEN Xte ELSE ImputerTransform(statistics[1], Xte)
        scored == fitted /\ ~HasNan(scoreX) /\ ~VecHasNan(yte)
    IN [train |-> train, test |-> test, statistics |-> statistics,
        fit_X |-> fitX, fit_y |-> ytr,
        score_X |-> IF fitted THEN Some(scoreX) ELSE None,
        score |-> IF scored THEN "number" ELSE "nan"]

\* KFold.split raises when there are fewer samples than splits
KFoldRaises(Xa) == Xa.shape[1] < NSplits

\* the ways KFold can split n samples: one per shuffle, up to the order of
\* the folds
Splits(n) == {{TestSet(perm, n, k) : k \in 1..NSplits} : perm \in Shuffles(n)}

\* cross_val_score(est, X, y, cv=KFold(3, shuffle=True, random_state=1)):
\* the fit-and-score of every test set some shuffle yields; a run does those
\* of one split
CrossValFolds(est, Xa, ya) ==
    {FitAndScore(est, Xa, ya, (1..Xa.shape[1]) \ test, test) :
        test \in UNION Splits(Xa.shape[1])}

\* the scores of the folds run, as how many are nan and how many a number
Scores(folds) ==
    [nan    |-> Cardinality({f \in folds : f.score = "nan"}),
     number |-> Cardinality({f \in folds : f.score = "number"})]

\* result.mean(): nan as soon as one score is nan
ResultMean(scores) == IF scores.nan > 0 THEN "nan" ELSE "number"

(***************************************************************************)
(* The notebook.  Every data cell starts by reading the file again.        *)
(***************************************************************************)
Printed(cell, items) == [cell |-> cell, printed |-> items]

\* the code cells in the order of the notebook
CellOrder ==
    <<"ca7eee07", "20e92baa", "0951791d", "391e24cd", "4e1bc391", "2a4f4fc3",
      "cfd7d4fb", "759dd62a", "f25ce84c", "782d01e6", "d03a664f", "2dc8d0bf",
      "8e28d8e8", "30b02082">>

\* cell is the next one to run
At(cell) == pc <= Len(CellOrder) /\ CellOrder[pc] = cell

\* dataset.describe(), its count and mean rows
describe(df) ==
    [count |-> [c \in Range(df.columns) |-> Len(Observed(df.data, c))],
     mean  |-> mean(df)]

\* the frame after "dataset[[1,2,3,4,5]] = dataset[[1,2,3,4,5]].replace(0, nan)"
Marked(df) == MarkMissing(df, NullableCols, Num(0))

\* what a cell prints after cross_val_score: the warnings of the failed
\* fits, unless they are filtered, and the mean accuracy
Report(folds) ==
    (IF ~filterwarnings /\ (\E f \in folds : f.score_X = None)
        THEN <<"FitFailedWarning">> ELSE <<>>)
    \o <<"Accuracy", ResultMean(Scores(folds))>>

Init ==
    /\ file \in Files
    /\ dataset = None
    /\ num_missing = None
    /\ values = None
    /\ X = None
    /\ y = None
    /\ transformed_values = None
    /\ imputer = None
    /\ result = None
    /\ cvtrace = None
    /\ filterwarnings = FALSE
    /\ out = Printed("", <<>>)
    /\ pc = 1

\* a fresh kernel and a file that need not be rectangular
InitLoad ==
    /\ file \in RaggedFiles
    /\ dataset = None
    /\ num_missing = None
    /\ values = None
    /\ X = None
    /\ y = None
    /\ transformed_values = None
    /\ imputer = None
    /\ result = None
    /\ cvtrace = None
    /\ filterwarnings = FALSE
    /\ out = Printed("", <<>>)
    /\ pc = 1

\* a fresh kernel for the cells run in any order
InitAnyOrder ==
    /\ file \in OrderFiles
    /\ dataset = None
    /\ num_missing = None
    /\ values = None
    /\ X = None
    /\ y = None
    /\ transformed_values = None
    /\ imputer = None
    /\ result = None
    /\ cvtrace = None
    /\ filterwarnings = FALSE
    /\ out = Printed("", <<>>)
    /\ pc = 1

\* a cell whose read_csv raises: nothing is bound, the traceback is shown
LoadRaises(cell) ==
    /\ read_csv_raises(file)
    /\ out' = Printed(cell, read_csv_error(file))
    /\ UNCHANGED <<file, dataset, num_missing, values, X, y, transformed_values,
                   imputer, result, cvtrace, filterwarnings>>

\* load and summarize the dataset
Run_ca7eee07 ==
    \/ LoadRaises("ca7eee07")
    \/ /\ ~read_csv_raises(file)
       /\ dataset' = Some(read_csv(file))
       /\ out' = Printed("ca7eee07", <<describe(read_csv(file))>>)
       /\ UNCHANGED <<file, num_missing, values, X, y, transformed_values,
                      imputer, result, cvtrace, filterwarnings>>

Cell_ca7eee07 == At("ca7eee07") /\ pc' = pc + 1 /\ Run_ca7eee07

\* load the dataset and review rows
Run_20e92baa ==
    \/ LoadRaises("20e92baa")
    \/ /\ ~read_csv_raises(file)
       /\ dataset' = Some(read_csv(file))
       /\ out' = Printed("20e92baa", <<head(read_csv(file), HeadRows)>>)
       /\ UNCHANGED <<file, num_missing, values, X, y, transformed_values,
                      imputer, result, cvtrace, filterwarnings>>

Cell_20e92baa == At("20e92baa") /\ pc' = pc + 1 /\ Run_20e92baa

\* summarize the number of zero values of columns 1..5
Run_0951791d ==
    \/ LoadRaises("0951791d")
    \/ /\ ~read_csv_raises(file)
       /\ LET df == read_csv(file)
              n  == sum(eq(getitem(df, NullableCols), Num(0)))
          IN /\ dataset' = Some(df)
             /\ num_missing' = Some(n)
             /\ out' = Printed("0951791d", <<n>>)
       /\ UNCHANGED <<file, values, X, y, transformed_values,
                      imputer, result, cvtrace, filterwarnings>>

Cell_0951791d == At("0951791d") /\ pc' = pc + 1 /\ Run_0951791d

\* mark the zero values as nan and count the nan of each column
Run_391e24cd ==
    \/ LoadRaises("391e24cd")
    \/ /\ ~read_csv_raises(file)
       /\ LET df == Marked(read_csv(file))
          IN /\ dataset' = Some(df)
             /\ out' = Printed("391e24cd", <<sum(isnull(df))>>)
       /\ UNCHANGED <<file, num_missing, values, X, y, transformed_values,
                      imputer, result, cvtrace, filterwarnings>>

Cell_391e24cd == At("391e24cd") /\ pc' = pc + 1 /\ Run_391e24cd

\* mark the zero values as nan and review rows
Run_4e1bc391 ==
    \/ LoadRaises("4e1bc391")
    \/ /\ ~read_csv_raises(file)
       /\ LET df == Marked(read_csv(file))
          IN /\ dataset' = Some(df)
             /\ out' = Printed("4e1bc391", <<head(df, HeadRows)>>)
       /\ UNCHANGED <<file, num_missing, values, X, y, transformed_values,
                      imputer, result, cvtrace, filterwarnings>>

Cell_4e1bc391 == At("4e1bc391") /\ pc' = pc + 1 /\ Run_4e1bc391

\* warnings.filterwarnings("ignore")
Run_2a4f4fc3 ==
    /\ filterwarnings' = TRUE
    /\ out' = Printed("2a4f4fc3", <<>>)
    /\ UNCHANGED <<file, dataset, num_missing, values, X, y, transformed_values,
                   imputer, result, cvtrace>>

Cell_2a4f4fc3 == At("2a4f4fc3") /\ pc' = pc + 1 /\ Run_2a4f4fc3

\* the tail shared by the five evaluating cells: split df into X and y and
\* run cross_val_score with est; KFold.split raising leaves result unbound.
\* cvtrace records every fit-and-score the shuffle could lead to, result
\* and the printed accuracy are those of one split.
Evaluate(cell, df, est) ==
    LET v  == to_numpy(df)
        Xa == ColSlice(v, 0, TargetCol)
        ya == Col(v, TargetCol)
    IN /\ dataset' = Some(df)
       /\ values' = Some(v)
       /\ X' = Some(Xa)
       /\ y' = Some(ya)
       /\ imputer' = IF est = None THEN imputer
                     ELSE Some([strategy |-> est[1], statistics_ |-> None])
       /\ \/ /\ KFoldRaises(Xa)
             /\ out' = Printed(cell, <<"ValueError">>)
             /\ UNCHANGED <<result, cvtrace>>
          \/ /\ ~KFoldRaises(Xa)
             /\ cvtrace' = Some(CrossValFolds(est, Xa, ya))
             /\ \E tests \in Splits(Xa.shape[1]) :
                   LET run == {f \in cvtrace'[1] : f.test \in tests}
                   IN /\ result' = Some(Scores(run))
                      /\ out' = Printed(cell, Report(run))
       /\ UNCHANGED <<file, num_missing, transformed_values, filterwarnings>>

\* evaluate the model on the marked data: missing values cause errors
Run_cfd7d4fb ==
    \/ LoadRaises("cfd7d4fb")
    \/ /\ ~read_csv_raises(file)
       /\ Evaluate("cfd7d4fb", Marked(read_csv(file)), None)

Cell_cfd7d4fb == At("cfd7d4fb") /\ pc' = pc + 1 /\ Run_cfd7d4fb

\* mutant: the file is read only while dataset is unbound
Run_759dd62a_KeepsDataset ==
    \/ LoadRaises("759dd62a")
    \/ /\ ~read_csv_raises(file)
       /\ LET df == IF dataset = None THEN read_csv(file) ELSE dataset[1]
              dropped == dropna(Marked(df))
          IN /\ dataset' = Some(dropped)
             /\ out' = Printed("759dd62a", <<shape(df), shape(dropped)>>)
       /\ UNCHANGED <<file, num_missing, values, X, y, transformed_values,
                      imputer, result, cvtrace, filterwarnings>>

\* remove the rows that contain missing values
Run_759dd62a ==
    \/ LoadRaises("759dd62a")
    \/ /\ ~read_csv_raises(file)
       /\ LET df == read_csv(file)
              dropped == dropna(Marked(df))
          IN /\ dataset' = Some(dropped)
             /\ out' = Printed("759dd62a", <<shape(df), shape(dropped)>>)
       /\ UNCHANGED <<file, num_missing, values, X, y, transformed_values,
                      imputer, result, cvtrace, filterwarnings>>

Cell_759dd62a == At("759dd62a") /\ pc' = pc + 1 /\ Run_759dd62a

\* mutant: the rows dropped before the zeros are marked
Run_f25ce84c_DropBeforeMark ==
    \/ LoadRaises("f25ce84c")
    \/ /\ ~read_csv_raises(file)
       /\ Evaluate("f25ce84c", Marked(dropna(read_csv(file))), None)

\* evaluate the model after the rows with missing data are removed
Run_f25ce84c ==
    \/ LoadRaises("f25ce84c")
    \/ /\ ~read_csv_raises(file)
       /\ Evaluate("f25ce84c", dropna(Marked(read_csv(file))), None)

Cell_f25ce84c == At("f25ce84c") /\ pc' = pc + 1 /\ Run_f25ce84c

\* fill the missing values with the column means
Run_782d01e6 ==
    \/ LoadRaises("782d01e6")
    \/ /\ ~read_csv_raises(file)
       /\ LET marked == Marked(read_csv(file))
              filled == fillna(marked, mean(marked))
          IN /\ dataset' = Some(filled)
             /\ out' = Printed("782d01e6", <<sum(isnull(filled))>>)
       /\ UNCHANGED <<file, num_missing, values, X, y, transformed_values,
                      imputer, result, cvtrace, filterwarnings>>

Cell_782d01e6 == At("782d01e6") /\ pc' = pc + 1 /\ Run_782d01e6

\* impute the missing values with SimpleImputer(strategy='mean')
Run_d03a664f ==
    \/ LoadRaises("d03a664f")
    \/ /\ ~read_csv_raises(file)
       /\ LET marked == Marked(read_csv(file))
              v == to_numpy(marked)
              statistics == ImputerFit("mean", v)
              t == ImputerTransform(statistics, v)
          IN /\ dataset' = Some(marked)
             /\ values' = Some(ImputerInputAfter(statistics, v))
             /\ imputer' = Some([strategy |-> "mean", statistics_ |-> Some(statistics)])
             /\ transformed_values' = Some(t)
             /\ out' = Printed("d03a664f", <<"Missing", CountNan(t)>>)
       /\ UNCHANGED <<file, num_missing, X, y, result, cvtrace, filterwarnings>>

Cell_d03a664f == At("d03a664f") /\ pc' = pc + 1 /\ Run_d03a664f

\* evaluate the model after a mean imputer, in a pipeline
Run_2dc8d0bf ==
    \/ LoadRaises("2dc8d0bf")
    \/ /\ ~read_csv_raises(file)
       /\ Evaluate("2dc8d0bf", Marked(read_csv(file)), Some("mean"))

Cell_2dc8d0bf == At("2dc8d0bf") /\ pc' = pc + 1 /\ Run_2dc8d0bf

\* evaluate the model after a median imputer, in a pipeline
Run_8e28d8e8 ==
    \/ LoadRaises("8e28d8e8")
    \/ /\ ~read_csv_raises(file)
       /\ Evaluate("8e28d8e8", Marked(read_csv(file)), Some("median"))

Cell_8e28d8e8 == At("8e28d8e8") /\ pc' = pc + 1 /\ Run_8e28d8e8

\* evaluate the model after a most_frequent imputer, in a pipeline
Run_30b02082 ==
    \/ LoadRaises("30b02082")
    \/ /\ ~read_csv_raises(file)
       /\ Evaluate("30b02082", Marked(read_csv(file)), Some("most_frequent"))

Cell_30b02082 == At("30b02082") /\ pc' = pc + 1 /\ Run_30b02082

Next ==
    \/ Cell_ca7eee07
    \/ Cell_20e92baa
    \/ Cell_0951791d
    \/ Cell_391e24cd
    \/ Cell_4e1bc391
    \/ Cell_2a4f4fc3
    \/ Cell_cfd7d4fb
    \/ Cell_759dd62a
    \/ Cell_f25ce84c
    \/ Cell_782d01e6
    \/ Cell_d03a664f
    \/ Cell_2dc8d0bf
    \/ Cell_8e28d8e8
    \/ Cell_30b02082

Spec == Init /\ [][Next]_vars

\* the two cells that only load and show the dataset, on any file
NextLoad ==
    \/ Cell_ca7eee07
    \/ Cell_20e92baa

SpecLoad == InitLoad /\ [][NextLoad]_vars

\* one more cell is run, whichever: pc counts the cells run, as the
\* kernel's execution counter does
Step(run) == pc <= MaxSteps /\ pc' = pc + 1 /\ run

\* the cells run in any order, any of them any number of times
NextAnyOrder ==
    \/ Step(Run_ca7eee07)
    \/ Step(Run_20e92baa)
    \/ Step(Run_0951791d)
    \/ Step(Run_391e24cd)
    \/ Step(Run_4e1bc391)
    \/ Step(Run_2a4f4fc3)
    \/ Step(Run_cfd7d4fb)
    \/ Step(Run_759dd62a)
    \/ Step(Run_f25ce84c)
    \/ Step(Run_782d01e6)
    \/ Step(Run_d03a664f)
    \/ Step(Run_2dc8d0bf)
    \/ Step(Run_8e28d8e8)
    \/ Step(Run_30b02082)

SpecAnyOrder == InitAnyOrder /\ [][NextAnyOrder]_vars

(***************************************************************************)
(* What the claims read: the file's cells as written, and which cell ran.  *)
(***************************************************************************)
Columns == 0..8
Nullable == 1..5
Rows == 1..Len(file)

\* the cell the file holds at line i, column c
Raw(i, c) == IF file[i][c + 1].kind = "num" THEN <<file[i][c + 1].val, 1>> ELSE <<0, 0>>

RawMissing(i, c) == file[i][c + 1].kind = "empty"
RawZero(i, c) == file[i][c + 1].kind = "num" /\ file[i][c + 1].val = 0

\* the cell is missing once the zeros of the nullable columns are marked
Missing(i, c) == RawMissing(i, c) \/ (c \in Nullable /\ RawZero(i, c))

\* the last cell run was cell, and it got past read_csv
Ran(cell) == out.cell = cell /\ Len(file) > 0

FileHasNoMarker == \A i \in Rows : \A c \in Columns : ~RawMissing(i, c)

RECURSIVE SetToSeq(_)
SetToSeq(S) ==
    IF S = {} THEN <<>>
    ELSE LET m == CHOOSE v \in S : \A w \in S : v <= w
         IN <<m>> \o SetToSeq(S \ {m})

\* the column sets marking is tried with: the runs a..b of columns and
\* what each leaves out
ColumnSets ==
    {a..b : a, b \in Columns} \cup {Columns \ (a..b) : a, b \in Columns}

\* C1: on a file without missing marker, the count of nan per column after
\* marking (cell 391e24cd) is the number of zero cells of the file in the
\* columns 1..5 and 0 elsewhere, and agrees with the zero counts cell
\* 0951791d bound to num_missing; the same holds of MarkMissing for every
\* set of columns of ColumnSets in place of 1..5.
C1_MarkedCountsAreZeroCounts ==
    (Ran("391e24cd") /\ FileHasNoMarker) =>
        /\ \A c \in Columns :
              out.printed[1][c] =
                  IF c \in Nullable THEN Cardinality({i \in Rows : RawZero(i, c)}) ELSE 0
        /\ \A c \in Nullable : num_missing[1][c] = out.printed[1][c]
        /\ \A C \in ColumnSets :
              LET counts == sum(isnull(MarkMissing(read_csv(file), SetToSeq(C), Num(0))))
              IN \A c \in Columns :
                    counts[c] =
                        IF c \in C THEN Cardinality({i \in Rows : RawZero(i, c)}) ELSE 0

\* a file without marker, with zeros in nullable and in plain columns, marked
C1_Witness ==
    /\ Ran("391e24cd")
    /\ FileHasNoMarker
    /\ out.printed[1][4] = 2
    /\ out.printed[1][1] = 1
    /\ \E i \in Rows : RawZero(i, 0)
    /\ \E i \in Rows : RawZero(i, TargetCol)

\* C2: marking changes only the zero cells of the columns 1..5: every cell
\* of the columns 0, 6, 7 and of the target, zeros included, and every
\* non-zero cell of the columns 1..5 holds after marking (cells 391e24cd,
\* 4e1bc391) what the file holds; labels and shape are those of the file.
C2_MarkChangesOnlyNullableZeros ==
    (Ran("391e24cd") \/ Ran("4e1bc391")) =>
        /\ dataset[1].index = [i \in Rows |-> i - 1]
        /\ Range(dataset[1].columns) = Columns
        /\ DOMAIN dataset[1].data = Rows
        /\ \A i \in Rows : \A c \in Columns :
              (c \notin Nullable \/ ~RawZero(i, c)) => dataset[1].data[i][c] = Raw(i, c)
        /\ Ran("4e1bc391") => out.printed[1] = dataset[1]

\* zeros kept in column 0 and in the target while a zero of column 4 is marked
C2_Witness ==
    /\ Ran("4e1bc391")
    /\ \E i \in Rows :
          /\ RawZero(i, 0) /\ dataset[1].data[i][0] = Num(0)
          /\ RawZero(i, TargetCol) /\ dataset[1].data[i][TargetCol] = Num(0)
          /\ RawZero(i, 4) /\ isnan(dataset[1].data[i][4])
          /\ dataset[1].data[i][3] = Num(1)

\* the lines of the file that have no missing cell once marked, by label
CompleteLabels == {i - 1 : i \in {r \in Rows : \A c \in Columns : ~Missing(r, c)}}

\* the cell line i, column c holds once marked
MarkedCell(i, c) == IF Missing(i, c) THEN <<0, 0>> ELSE Raw(i, c)

\* C3: after dropna (cell 759dd62a) the frame holds exactly the rows that
\* had no nan in any of the nine columns: no nan is left, every kept row is
\* the marked row of its label with all nine columns, the labels ascend (the
\* order of the file is kept), and the shape printed is that of the frame.
C3_DropKeepsExactlyCompleteRows ==
    Ran("759dd62a") =>
        LET d == dataset[1]
        IN /\ Range(d.index) = CompleteLabels
           /\ Len(d.index) = Len(d.data)
           /\ \A k \in 1..(Len(d.index) - 1) : d.index[k] < d.index[k + 1]
           /\ Range(d.columns) = Columns
           /\ \A k \in DOMAIN d.data :
                 /\ DOMAIN d.data[k] = Columns
                 /\ \A c \in Columns :
                       /\ ~isnan(d.data[k][c])
                       /\ d.data[k][c] = MarkedCell(d.index[k] + 1, c)
           /\ out.printed = <<<<Len(file), 9>>, <<Cardinality(CompleteLabels), 9>>>>

\* three lines: one dropped for a marked zero, one dropped for an empty
\* field of a plain column only, the complete one kept
C3_Witness ==
    /\ Ran("759dd62a")
    /\ Len(file) = 3
    /\ dataset[1].index = <<1>>
    /\ \E i \in Rows : \E c \in Nullable : RawZero(i, c)
    /\ \E i \in Rows : /\ \E c \in Columns \ Nullable : RawMissing(i, c)
                       /\ \A c \in Nullable : ~Missing(i, c)

\* C4: dropna applied to its own output changes nothing, whatever frame it
\* is given: the frame a cell left in dataset (loaded, marked, dropped or
\* filled), dropped twice, is that frame dropped once.
C4_DropIdempotent ==
    dataset # None => dropna(dropna(dataset[1])) = dropna(dataset[1])

\* the dropped frame of cell 759dd62a, some rows gone and the first label not 0
C4_Witness ==
    /\ Ran("759dd62a")
    /\ Len(dataset[1].data) = 2
    /\ Len(file) = 3
    /\ dataset[1].index = <<1, 2>>
    /\ dropna(dataset[1]) = dataset[1]

\* the sum of the numbers the file holds in column c on the lines of R that
\* are not missing once marked, and how many they are
RECURSIVE ObservedSum(_, _)
ObservedSum(R, c) ==
    IF R = {} THEN 0
    ELSE LET i == CHOOSE r \in R : TRUE
         IN (IF Missing(i, c) THEN 0 ELSE file[i][c + 1].val) + ObservedSum(R \ {i}, c)

ObservedCount(R, c) == Cardinality({i \in R : ~Missing(i, c)})

\* v is the number s / n
IsRatio(v, s, n) == v[2] > 0 /\ n > 0 /\ v[1] * n = s * v[2]

\* where column c of the input is in SimpleImputer's output, fitted on the
\* lines R: after the columns before it that have a number
PositionOf(R, c) == Cardinality({b \in Columns : b < c /\ ObservedCount(R, b) > 0})

\* C5: mean imputation leaves no nan in a column that has a number, and
\* every cell that was missing holds the sum of the column's numbers
\* divided by their count: in dataset after fillna(dataset.mean()) (cell
\* 782d01e6) and in transformed_values after SimpleImputer (cell
\* d03a664f), where the column stands after the columns kept before it.
C5_MeanFillsWithColumnMean ==
    /\ Ran("782d01e6") =>
          \A c \in Columns : ObservedCount(Rows, c) > 0 =>
              /\ out.printed[1][c] = 0
              /\ \A i \in Rows :
                    /\ ~isnan(dataset[1].data[i][c])
                    /\ Missing(i, c) =>
                          IsRatio(dataset[1].data[i][c],
                                  ObservedSum(Rows, c), ObservedCount(Rows, c))
    /\ Ran("d03a664f") =>
          \A c \in Columns : ObservedCount(Rows, c) > 0 =>
              \A i \in Rows :
                  LET v == transformed_values[1].a[i][PositionOf(Rows, c)]
                  IN /\ ~isnan(v)
                     /\ Missing(i, c) =>
                           IsRatio(v, ObservedSum(Rows, c), ObservedCount(Rows, c))

\* SimpleImputer filled column 5 with 5/2, the mean of 2 and 3, in a file
\* whose column 4 has no number
C5_Witness ==
    /\ Ran("d03a664f")
    /\ transformed_values[1].shape = <<3, 8>>
    /\ \E i \in Rows : Missing(i, 5) /\ transformed_values[1].a[i][4] = <<5, 2>>

\* the feature columns, those of X = values[:, 0:8]
Features == 0..7

\* the three cells that run an imputer inside the pipeline got to cross_val_score
RanPipeline ==
    /\ (Ran("2dc8d0bf") \/ Ran("8e28d8e8") \/ Ran("30b02082"))
    /\ Len(file) >= 3

\* how many of the columns of S have a number on the lines R
KeptColumns(R, S) == Cardinality({c \in S : ObservedCount(R, c) > 0})

\* C6 as claimed: with a column that has no number, impute ends in an
\* EmptyColumnError and returns nothing: cell 782d01e6 does not get to print
\* its counts and cell d03a664f binds no transformed_values.
C6_ImputeFailsOnEmptyColumn ==
    KeptColumns(Rows, Columns) < 9 =>
        /\ Ran("782d01e6") => Len(out.printed) = 0
        /\ Ran("d03a664f") => transformed_values = None

\* C6 as amended: impute never fails on a column without a number.
\* fillna(dataset.mean()) fills the other columns and leaves that column all
\* nan (cell 782d01e6 prints its full count); SimpleImputer, of any
\* strategy, removes exactly that column from its output and keeps the
\* numbers of the others; no default value is put in.
C6_EmptyColumnLeftOrRemoved ==
    /\ Ran("782d01e6") =>
          \A c \in Columns : ObservedCount(Rows, c) = 0 =>
              /\ out.printed[1][c] = Len(file)
              /\ \A i \in Rows : isnan(dataset[1].data[i][c])
    /\ Ran("d03a664f") =>
          /\ out.printed = <<"Missing", 0>>
          /\ transformed_values[1].shape[2] = KeptColumns(Rows, Columns)
          /\ \A i \in Rows :
                /\ DOMAIN transformed_values[1].a[i] = 0..(KeptColumns(Rows, Columns) - 1)
                /\ \A c \in Columns : (ObservedCount(Rows, c) > 0 /\ ~Missing(i, c)) =>
                      transformed_values[1].a[i][PositionOf(Rows, c)] = Raw(i, c)
    /\ RanPipeline =>
          \A f \in cvtrace[1] :
              /\ f.fit_X.shape[2] = KeptColumns(f.train, Features)
              /\ \A j \in Features : isnan(f.statistics[1][j]) <=> ObservedCount(f.train, j) = 0

\* column 4 has no number: fillna left its three nan and filled column 3
C6_Witness ==
    /\ Ran("782d01e6")
    /\ ObservedCount(Rows, 4) = 0
    /\ out.printed[1][4] = 3
    /\ out.printed[1][3] = 0
    /\ \E i \in Rows : Missing(i, 3)

C8_ShapesKept ==
    /\ (Ran("391e24cd") \/ Ran("4e1bc391")) => shape(dataset[1]) = <<Len(file), 9>>
    /\ Ran("759dd62a") =>
          /\ shape(dataset[1])[1] <= Len(file)
          /\ shape(dataset[1])[2] = 9
    /\ Ran("782d01e6") => shape(dataset[1]) = <<Len(file), 9>>
    /\ Ran("d03a664f") => transformed_values[1].shape = <<Len(file), 9>>
    /\ RanPipeline =>
          \A f \in cvtrace[1] : f.fit_X.shape = <<Cardinality(f.train), 8>>

\* C8 as amended: marking and imputing keep the number of rows and dropping
\* never raises it; marking, dropping and fillna keep the nine columns;
\* the output of a SimpleImputer has one column per column of its input
\* that holds a number on the rows it was fitted on, which is fewer than
\* the input has when a column holds none.
C8_ShapesKeptButEmptyColumns ==
    /\ (Ran("391e24cd") \/ Ran("4e1bc391")) => shape(dataset[1]) = <<Len(file), 9>>
    /\ Ran("759dd62a") =>
          /\ out.printed = <<<<Len(file), 9>>, shape(dataset[1])>>
          /\ shape(dataset[1])[1] <= Len(file)
          /\ shape(dataset[1])[2] = 9
    /\ Ran("782d01e6") => shape(dataset[1]) = <<Len(file), 9>>
    /\ Ran("d03a664f") =>
          /\ transformed_values[1].shape = <<Len(file), KeptColumns(Rows, Columns)>>
          /\ Len(transformed_values[1].a) = Len(file)
    /\ RanPipeline =>
          \A f \in cvtrace[1] :
              /\ f.fit_X.shape = <<Cardinality(f.train), KeptColumns(f.train, Features)>>
              /\ Len(f.fit_X.a) = Cardinality(f.train)
              /\ f.score_X # None =>
                    f.score_X[1].shape = <<Cardinality(f.test), KeptColumns(f.train, Features)>>

\* three lines with no number in columns 3 and 4: the imputed array has
\* three rows and seven columns
C8_Witness ==
    /\ Ran("d03a664f")
    /\ values[1].shape = <<3, 9>>
    /\ transformed_values[1].shape = <<3, 7>>

\* how many of the lines R hold the number v in column c
Freq(R, c, v) == Cardinality({i \in R : ~Missing(i, c) /\ Raw(i, c) = v})

\* m is a number of column c on the lines R that no number of the column
\* occurs more often than, and the smallest such
IsMode(m, R, c) ==
    /\ \E i \in R : ~Missing(i, c) /\ Raw(i, c) = m
    /\ \A j \in R : ~Missing(j, c) =>
          \/ Freq(R, c, Raw(j, c)) < Freq(R, c, m)
          \/ Freq(R, c, Raw(j, c)) = Freq(R, c, m) /\ m[1] <= Raw(j, c)[1]

\* the rows of arr are the lines R in ascending order, column c at its
\* position, with m in place of every missing cell
FilledWith(arr, R, c, T, m) ==
    \A k \in 1..Cardinality(R) :
        LET i == SetToSeq(R)[k]
        IN arr.a[k][PositionOf(T, c)] = IF Missing(i, c) THEN m ELSE Raw(i, c)

\* a one-column array of the numbers of s
OneColumn(s) ==
    [shape |-> <<Len(s), 1>>, a |-> [i \in 1..Len(s) |-> [j \in {0} |-> s[i]]]]

\* C9: the most-frequent strategy fills every missing cell of a column with
\* the column's most frequent number, the smallest of them when several
\* occur equally often, and leaves the other cells as they are: in every
\* fold of cell 30b02082 for the train and the test rows, and on the two
\* columns [1, 1, 2, 2, 3] and [nan, 1, 1, 2].
C9_MostFrequentSmallestOnTies ==
    /\ ImputerFit("most_frequent", OneColumn(<<Num(1), Num(1), Num(2), Num(2), Num(3)>>))[0] = Num(1)
    /\ ImputerTransform([j \in {0} |-> Num(1)], OneColumn(<<Num(1), Num(1), Num(2), Num(2), Num(3)>>))
          = OneColumn(<<Num(1), Num(1), Num(2), Num(2), Num(3)>>)
    /\ LET col == OneColumn(<<nan, Num(1), Num(1), Num(2)>>)
       IN ImputerTransform(ImputerFit("most_frequent", col), col)
             = OneColumn(<<Num(1), Num(1), Num(1), Num(2)>>)
    /\ (Ran("30b02082") /\ Len(file) >= 3) =>
          \A f \in cvtrace[1] : \A c \in Features :
              ObservedCount(f.train, c) > 0 =>
                  /\ IsMode(f.statistics[1][c], f.train, c)
                  /\ FilledWith(f.fit_X, f.train, c, f.train, f.statistics[1][c])
                  /\ f.score_X # None =>
                        FilledWith(f.score_X[1], f.test, c, f.train, f.statistics[1][c])

\* a fold whose train rows hold two different numbers in column 1, once
\* each, and whose test row misses it: the cell is filled with the smaller
C9_Witness ==
    /\ Ran("30b02082")
    /\ Len(file) = 3
    /\ \E f \in cvtrace[1] : \E i \in f.test :
          /\ Cardinality(f.train) = 2
          /\ \A j \in f.train : ~Missing(j, 1) /\ Freq(f.train, 1, Raw(j, 1)) = 1
          /\ Missing(i, 1)
          /\ f.score_X # None
          /\ \E j \in f.train :
                /\ f.score_X[1].a[1][PositionOf(f.train, 1)] = Raw(j, 1)
                /\ \E k \in f.train : Raw(j, 1)[1] < Raw(k, 1)[1]

\* the statistic the mean imputer of cell d03a664f would compute for
\* column c of the file g
FillValue(g, c) == ImputerFit("mean", to_numpy(Marked(read_csv(g))))[c]

\* the files with as many lines as the file read and the same column c
AgreeOn(c) ==
    {g \in Files : Len(g) = Len(file) /\ \A i \in Rows : g[i][c + 1] = file[i][c + 1]}

\* the value imputed for a column depends on that column alone
C10_FillValueOfOwnColumn ==
    /\ Ran("d03a664f") =>
          \A c \in Columns : \A g \in AgreeOn(c) :
              imputer[1].statistics_[1][c] = FillValue(g, c)
    /\ Ran("782d01e6") =>
          \A c \in Columns : \A g \in AgreeOn(c) : \A i \in Rows :
              (Missing(i, c) /\ ObservedCount(Rows, c) > 0) =>
                  dataset[1].data[i][c] = FillValue(g, c)

\* no cell of the target column is changed by an imputing cell
C10_TargetNeverChanged ==
    /\ Ran("782d01e6") => \A i \in Rows : dataset[1].data[i][TargetCol] = Raw(i, TargetCol)
    /\ (Ran("d03a664f") /\ ObservedCount(Rows, TargetCol) > 0) =>
          \A i \in Rows :
              transformed_values[1].a[i][PositionOf(Rows, TargetCol)] = Raw(i, TargetCol)
    /\ RanPipeline => y[1] = [i \in Rows |-> Raw(i, TargetCol)]

Loaded == out.cell \in {"ca7eee07", "20e92baa"}

\* the file is not a rectangle of numbers: two lines differ in length, or
\* a field is empty
Malformed ==
    \/ \E i, j \in Rows : Len(file[i]) # Len(file[j])
    \/ \E i \in Rows : \E c \in 1..Len(file[i]) : file[i][c].kind = "empty"

\* C11 as claimed: on a file with two rows of different length or a cell
\* that is not a number, load fails and returns no dataset.
C11_LoadFailsOnMalformed ==
    (Loaded /\ Malformed) => dataset = None

\* C11 as amended: load fails and returns no dataset only when the file is
\* empty (EmptyDataError) or a row has more fields than the first row
\* (ParserError); otherwise it returns a dataset with one row per line and
\* as many columns as the first line has fields, in which a shorter row is
\* filled up with missing markers and an empty cell is a missing marker.
C11_LoadPadsShortRows ==
    Loaded =>
        IF Len(file) = 0
            THEN dataset = None /\ out.printed = <<"EmptyDataError">>
        ELSE IF \E i \in Rows : Len(file[i]) > Len(file[1])
            THEN dataset = None /\ out.printed = <<"ParserError">>
        ELSE /\ dataset # None
             /\ dataset[1].index = [i \in Rows |-> i - 1]
             /\ dataset[1].columns = [c \in 1..Len(file[1]) |-> c - 1]
             /\ Len(dataset[1].data) = Len(file)
             /\ \A i \in Rows :
                   /\ DOMAIN dataset[1].data[i] = 0..(Len(file[1]) - 1)
                   /\ \A c \in 0..(Len(file[1]) - 1) :
                         dataset[1].data[i][c] =
                             IF c + 1 <= Len(file[i]) /\ file[i][c + 1].kind = "num"
                                 THEN <<file[i][c + 1].val, 1>>
                                 ELSE <<0, 0>>
             /\ out.cell = "20e92baa" => out.printed = <<dataset[1]>>

\* a second line of eight fields after a first of nine: the dataset has
\* three rows of nine cells and the short row ends in a missing marker
C11_Witness ==
    /\ out.cell = "ca7eee07"
    /\ Len(file) = 3
    /\ Len(file[1]) = 9
    /\ Len(file[2]) = 8
    /\ dataset # None
    /\ Len(dataset[1].data) = 3
    /\ dataset[1].data[2][8] = <<0, 0>>

\* no cell of the array is a missing marker
NoNan(arr) == \A i \in 1..Len(arr.a) : \A j \in DOMAIN arr.a[i] : arr.a[i][j][2] # 0

\* every feature column of the file has a number
AllFeaturesObserved == \A c \in Features : ObservedCount(Rows, c) > 0

\* C13: in the cells that evaluate a model after a cleaning step the steps
\* run in the order load, mark, clean, fit/evaluate, and no missing marker
\* reaches the model, provided every feature column has a number.  After
\* cell f25ce84c X holds the feature cells of exactly the lines that are
\* complete once marked, and every fold is fitted and scored on rows of
\* it; after the pipeline cells X holds the marked cells of every line,
\* markers included, each fold fits its imputer first, and what the model
\* is fitted and scored on holds no marker.
C13_NoMarkerReachesTheModel ==
    AllFeaturesObserved =>
        /\ Ran("f25ce84c") =>
              /\ X[1].shape = <<Cardinality(CompleteLabels), 8>>
              /\ X[1].a = [k \in 1..Cardinality(CompleteLabels) |->
                              [c \in Features |-> Raw(SetToSeq(CompleteLabels)[k] + 1, c)]]
              /\ NoNan(X[1])
              /\ Cardinality(CompleteLabels) >= 3 =>
                    \A f \in cvtrace[1] :
                        /\ f.statistics = None
                        /\ NoNan(f.fit_X)
                        /\ f.score_X # None => NoNan(f.score_X[1])
        /\ RanPipeline =>
              /\ X[1].a = [i \in Rows |-> [c \in Features |-> MarkedCell(i, c)]]
              /\ \A f \in cvtrace[1] :
                    /\ f.statistics # None
                    /\ NoNan(f.fit_X)
                    /\ f.score_X # None => NoNan(f.score_X[1])

\* a fold of the median pipeline whose train rows hold a marker, fitted and
\* scored
C13_Witness ==
    /\ Ran("8e28d8e8")
    /\ Len(file) = 3
    /\ AllFeaturesObserved
    /\ \E f \in cvtrace[1] :
          /\ \E i \in f.train : \E c \in Features : Missing(i, c)
          /\ f.score_X # None
          /\ f.score = "number"

\* some feature cell of the file is a missing marker once marked
FeaturesHoldMarker == \E i \in Rows : \E c \in Features : Missing(i, c)

\* the dataset and the array taken from it are the marked file
MarkedDatasetKept ==
    /\ dataset[1].index = [i \in Rows |-> i - 1]
    /\ dataset[1].data = [i \in Rows |-> [c \in Columns |-> MarkedCell(i, c)]]
    /\ values[1].a = [i \in Rows |-> [c \in Columns |-> MarkedCell(i, c)]]

\* C14 as claimed: evaluating the model on the marked dataset (cell
\* cfd7d4fb) never aborts; the accuracy printed is nan and the dataset is
\* the marked one.
C14_MarkedEvaluationPrintsNan ==
    (Ran("cfd7d4fb") /\ FeaturesHoldMarker) =>
        /\ out.printed \in {<<"Accuracy", "nan">>, <<"FitFailedWarning", "Accuracy", "nan">>}
        /\ MarkedDatasetKept

\* C14 as amended: on a file of at least three lines, as many as KFold has
\* splits, the evaluation does not abort: every fold whose train rows hold
\* a marker fails to fit and scores nan, so the accuracy printed is nan
\* (after the FitFailedWarning unless warnings are filtered); on a shorter
\* file KFold.split raises ValueError and the cell ends there.  Either way
\* dataset is the marked frame, unchanged by the evaluation.
C14_MarkedEvaluationPrintsNanOrTooFewRows ==
    (Ran("cfd7d4fb") /\ FeaturesHoldMarker) =>
        /\ MarkedDatasetKept
        /\ Len(file) < 3 => out.printed = <<"ValueError">>
        /\ Len(file) >= 3 =>
              /\ out.printed = IF filterwarnings THEN <<"Accuracy", "nan">>
                               ELSE <<"FitFailedWarning", "Accuracy", "nan">>
              /\ result[1].nan + result[1].number = 3
              /\ result[1].nan >= 2
              /\ \A f \in cvtrace[1] :
                    (\E i \in f.train : \E c \in Features : Missing(i, c)) =>
                        f.score = "nan" /\ f.score_X = None

\* three lines, one of them with a marker in a feature: two fits fail and
\* the accuracy printed is nan
C14_Witness ==
    /\ Ran("cfd7d4fb")
    /\ Len(file) = 3
    /\ Cardinality({i \in Rows : \E c \in Features : Missing(i, c)}) = 1
    /\ out.printed = <<"Accuracy", "nan">>
    /\ result[1].nan >= 2

\* what print(...) wrote in the last cell: the library's FitFailedWarning
\* goes to the error stream and is not a result the cell prints
PrintResult ==
    IF /\ out.cell \in {"cfd7d4fb", "f25ce84c", "2dc8d0bf", "8e28d8e8", "30b02082"}
       /\ Len(out.printed) = 3
        THEN Tail(out.printed) ELSE out.printed

\* what an evaluating cell run alone prints for the frame df and the
\* estimator est, one result per way KFold can split
AccuracyAlone(df, est) ==
    LET v == to_numpy(df)
        Xa == ColSlice(v, 0, 8)
        ya == Col(v, 8)
    IN IF Xa.shape[1] < 3 THEN {<<"ValueError">>}
       ELSE {<<"Accuracy", ResultMean(Scores({f \in CrossValFolds(est, Xa, ya) : f.test \in tests}))>> :
                tests \in Splits(Xa.shape[1])}

\* what the cell prints when it is run alone on a fresh kernel
PrintsAlone(cell) ==
    IF cell = "2a4f4fc3" THEN {<<>>}
    ELSE IF Len(file) = 0 THEN {<<"EmptyDataError">>}
    ELSE CASE cell = "ca7eee07" -> {<<describe(read_csv(file))>>}
           [] cell = "20e92baa" -> {<<head(read_csv(file), 20)>>}
           [] cell = "0951791d" ->
                {<<[c \in Nullable |-> Cardinality({i \in Rows : RawZero(i, c)})]>>}
           [] cell = "391e24cd" ->
                {<<[c \in Columns |-> Cardinality({i \in Rows : Missing(i, c)})]>>}
           [] cell = "4e1bc391" -> {<<head(Marked(read_csv(file)), 20)>>}
           [] cell = "759dd62a" ->
                {<<<<Len(file), 9>>, <<Cardinality(CompleteLabels), 9>>>>}
           [] cell = "782d01e6" ->
                {<<[c \in Columns |-> IF ObservedCount(Rows, c) = 0 THEN Len(file) ELSE 0]>>}
           [] cell = "d03a664f" -> {<<"Missing", 0>>}
           [] cell = "cfd7d4fb" -> AccuracyAlone(Marked(read_csv(file)), None)
           [] cell = "f25ce84c" -> AccuracyAlone(dropna(Marked(read_csv(file))), None)
           [] cell = "2dc8d0bf" -> AccuracyAlone(Marked(read_csv(file)), Some("mean"))
           [] cell = "8e28d8e8" -> AccuracyAlone(Marked(read_csv(file)), Some("median"))
           [] cell = "30b02082" -> AccuracyAlone(Marked(read_csv(file)), Some("most_frequent"))

\* dataset is the frame the last cell makes from the file
DatasetFromFile ==
    CASE out.cell \in {"ca7eee07", "20e92baa", "0951791d"} ->
            /\ dataset[1].index = [i \in Rows |-> i - 1]
            /\ dataset[1].data = [i \in Rows |-> [c \in Columns |-> Raw(i, c)]]
      [] out.cell \in {"759dd62a", "f25ce84c"} ->
            /\ dataset[1].index = SetToSeq(CompleteLabels)
            /\ dataset[1].data =
                  [k \in 1..Cardinality(CompleteLabels) |->
                      [c \in Columns |-> Raw(SetToSeq(CompleteLabels)[k] + 1, c)]]
      [] out.cell = "782d01e6" ->
            /\ dataset[1].index = [i \in Rows |-> i - 1]
            /\ \A i \in Rows : \A c \in Columns :
                  /\ ~Missing(i, c) => dataset[1].data[i][c] = Raw(i, c)
                  /\ ObservedCount(Rows, c) > 0 => dataset[1].data[i][c][2] # 0
      [] OTHER ->
            /\ dataset[1].index = [i \in Rows |-> i - 1]
            /\ dataset[1].data = [i \in Rows |-> [c \in Columns |-> MarkedCell(i, c)]]

====
